---- MODULE Spec2Model ----
(***************************************************************************)
(* multiplayerctl (src/src/main.rs): every invocation is one OS process    *)
(* that runs init_if_empty_player, registers the SIGUSR1 flag and then     *)
(* dispatches one command.  The processes share the cache file             *)
(* "currentplayer" and the backend's list of players.  A step of the model *)
(* is one system call (or one run of local code between two system calls)  *)
(* of one process, so that invocations interleave as processes do.         *)
(***************************************************************************)
EXTENDS Integers, Sequences, FiniteSets

(* ------------------------------ bounds --------------------------------- *)

\* Invocations started in one behaviour.
MaxRuns == 3

\* Process slots: a slot holds one invocation at a time.
Inst == {"p1", "p2"}

\* Player identifiers the backend may report, as byte strings; they differ
\* in length so that an overwrite at offset 0 can leave bytes behind.
Players == { <<"a">>, <<"b", "b">>, <<"c">> }

None == <<"-">>

\* The order in which the backend lists the players that are running.
BackendOrder == << <<"a">>, <<"b", "b">>, <<"c">> >>

RECURSIVE Listing(_, _)
Listing(S, k) ==
    IF k > Len(BackendOrder) THEN <<>>
    ELSE (IF BackendOrder[k] \in S THEN << BackendOrder[k] >> ELSE <<>>)
         \o Listing(S, k + 1)

\* What `playerctl -l` can print: the running players, each once.
LiveLists == { Listing(S, 1) : S \in SUBSET Players }

(* ------------------------------ state ---------------------------------- *)

VARIABLES
    live,                   \* the players `playerctl -l` reports now
    file,                   \* the cache file: [exists, content]
    pc,                     \* each process's position
    args,                   \* each process's parsed command line (Args)
    current_player,         \* each process's local current_player
    all_player_lines,       \* each process's local list of lines
    CHANGE_SIGNAL_HANDLER,  \* each process's flag
    pids,                   \* switch: the processes still to be signalled
    child,                  \* follow mode: subprocesses spawned and not killed
    outcome,                \* what the process printed or how it ended
    runs                    \* invocations started so far

vars == << live, file, pc, args, current_player, all_player_lines,
           CHANGE_SIGNAL_HANDLER, pids, child, outcome, runs >>

(* ------------------------------ Args ----------------------------------- *)

SwitchArgs ==
    { [op |-> "switch", player |-> None, next |-> n, back |-> b, follow |-> FALSE] :
        n \in BOOLEAN, b \in BOOLEAN }
    \cup
    { [op |-> "switch", player |-> p, next |-> FALSE, back |-> b, follow |-> FALSE] :
        p \in Players, b \in BOOLEAN }

PlainArgs ==
    { [op |-> o, player |-> None, next |-> FALSE, back |-> FALSE, follow |-> FALSE] :
        o \in {"list", "player"} }

FollowArgs ==
    { [op |-> o, player |-> None, next |-> FALSE, back |-> FALSE, follow |-> TRUE] :
        o \in {"metadata", "status"} }

Args == SwitchArgs \cup PlainArgs \cup FollowArgs

\* Before Args::from_args() has run.
NoArgs == [op |-> "none", player |-> None, next |-> FALSE, back |-> FALSE,
           follow |-> FALSE]

(* --------------------------- the cache file ---------------------------- *)

NoFile == [exists |-> FALSE, content |-> <<>>]

\* An open for writing that creates the file but does not truncate it.
File_create_keeps_bytes(f) == [exists |-> TRUE, content |-> f.content]

\* File::create: creates the file or truncates it to length 0.
File_create(f) == [exists |-> TRUE, content |-> <<>>]

\* write_all on a descriptor File::create returned: the bytes go to offset
\* 0 and replace what is there; bytes of the file beyond them stay.
write_all(f, data) ==
    [exists |-> TRUE,
     content |-> data \o SubSeq(f.content, Len(data) + 1, Len(f.content))]

\* `if file_path.exists() { File::open; read_to_string }`
read_if_exists(f) == IF f.exists THEN f.content ELSE <<>>

(* ------------------------- local computations -------------------------- *)

\* for l in lines { if l == current_player { player_valid = true } }
player_valid(cur, lines) == \E k \in 1..Len(lines) : lines[k] = cur

\* A resolver that falls back to the last line of the list, not the first.
init_value_takes_last(cur, lines) ==
    LET kept == IF player_valid(cur, lines) THEN cur ELSE <<>>
    IN  IF kept = <<>>
        THEN IF lines = <<>> THEN None ELSE lines[Len(lines)]
        ELSE kept

\* A resolver that does not validate what it read: a selection that is not
\* empty is kept, listed or not.
init_value_keeps_stale(cur, lines) ==
    IF cur = <<>>
    THEN IF lines = <<>> THEN None ELSE lines[1]
    ELSE cur

\* lines 212-229: the value init_if_empty_player writes, or None when it
\* returns Err("No players found!").
init_value(cur, lines) ==
    LET kept == IF player_valid(cur, lines) THEN cur ELSE <<>>
    IN  IF kept = <<>>
        THEN IF lines = <<>> THEN None ELSE lines[1]
        ELSE kept

\* The position (from 0) of the first line equal to cur; -1 when none is.
position_of(cur, lines) ==
    IF player_valid(cur, lines)
    THEN (CHOOSE k \in 1..Len(lines) :
            /\ lines[k] = cur
            /\ \A m \in 1..(k - 1) : lines[m] # cur) - 1
    ELSE -1

\* lines.nth(n)
nth(lines, n) == lines[n + 1]

\* A policy that stops at the ends of the list instead of going round.
policy_value_clamps(cur, lines, player, previous) ==
    LET line_count == Len(lines)
        i == position_of(cur, lines)
    IN  IF player # None
        THEN IF player_valid(player, lines) THEN player ELSE cur
        ELSE IF i < 0 THEN cur
             ELSE IF previous
                  THEN nth(lines, IF i = 0 THEN 0 ELSE i - 1)
                  ELSE nth(lines, IF i = line_count - 1 THEN i ELSE i + 1)

\* A policy that rotates whether or not --player is given.
policy_value_ignores_name(cur, lines, player, previous) ==
    LET line_count == Len(lines)
        i == position_of(cur, lines)
    IN  IF i < 0 THEN cur
        ELSE IF previous
             THEN nth(lines, (i + line_count - 1) % line_count)
             ELSE nth(lines, (i + 1) % line_count)

\* A policy that drops the selection when --player names no listed player.
policy_value_clears_on_miss(cur, lines, player, previous) ==
    LET line_count == Len(lines)
        i == position_of(cur, lines)
    IN  IF player # None
        THEN IF player_valid(player, lines) THEN player ELSE <<>>
        ELSE IF i < 0 THEN cur
             ELSE IF previous
                  THEN nth(lines, (i + line_count - 1) % line_count)
                  ELSE nth(lines, (i + 1) % line_count)

\* switch's `match player { Some(p) => ..., None => ... }`
policy_value(cur, lines, player, previous) ==
    LET line_count == Len(lines)
        i == position_of(cur, lines)
    IN  IF player # None
        THEN IF player_valid(player, lines) THEN player ELSE cur
        ELSE IF i < 0 THEN cur
             ELSE IF previous
                  THEN nth(lines, (i + line_count - 1) % line_count)
                  ELSE nth(lines, (i + 1) % line_count)

\* switch's fallback (lines 364-366): None when `.expect("No players
\* found!")` panics.
fallback_value(cur, lines) ==
    IF cur = <<>>
    THEN IF lines = <<>> THEN None ELSE lines[1]
    ELSE cur

\* The value switch writes: the policy, then the fallback.
switch_value(cur, lines, player, previous) ==
    fallback_value(policy_value(cur, lines, player, previous), lines)

(* ------------------------------ Init ----------------------------------- *)

Init ==
    /\ live \in LiveLists
    /\ file = NoFile
    /\ pc = [i \in Inst |-> "idle"]
    /\ args = [i \in Inst |-> NoArgs]
    /\ current_player = [i \in Inst |-> <<>>]
    /\ all_player_lines = [i \in Inst |-> <<>>]
    /\ CHANGE_SIGNAL_HANDLER = [i \in Inst |-> FALSE]
    /\ pids = [i \in Inst |-> {}]
    /\ child = [i \in Inst |-> <<>>]
    /\ outcome = [i \in Inst |-> "none"]
    /\ runs = 0

(* --------------------------- process helpers --------------------------- *)

Running(i) == pc[i] \notin {"idle", "done"}

\* Positions before signal_hook::flag::register has run: SIGUSR1 still has
\* its default action there, which terminates the process.
BeforeRegister == {"init_read", "init_list", "init_create", "init_write", "register"}

Registered(i) == Running(i) /\ pc[i] \notin BeforeRegister

\* The process ends: `how` is what it printed or how it died.  Its locals,
\* its flag and its pid are gone with it.
Exit(i, how) ==
    /\ pc' = [pc EXCEPT ![i] = "done"]
    /\ outcome' = [outcome EXCEPT ![i] = how]
    /\ args' = [args EXCEPT ![i] = NoArgs]
    /\ current_player' = [current_player EXCEPT ![i] = <<>>]
    /\ all_player_lines' = [all_player_lines EXCEPT ![i] = <<>>]
    /\ CHANGE_SIGNAL_HANDLER' = [CHANGE_SIGNAL_HANDLER EXCEPT ![i] = FALSE]
    /\ pids' = [pids EXCEPT ![i] = {}]

(* ------------------------------ main ----------------------------------- *)

\* lines 114-117: a new process starts in slot i; the pid of the process
\* that was there names nothing any more.
main(i) ==
    /\ ~Running(i)
    /\ pc' = [pc EXCEPT ![i] = "init_read"]
    /\ outcome' = [outcome EXCEPT ![i] = "none"]
    /\ child' = [child EXCEPT ![i] = <<>>]
    /\ pids' = [j \in Inst |-> pids[j] \ {i}]
    /\ UNCHANGED << live, file, args, current_player, all_player_lines,
                    CHANGE_SIGNAL_HANDLER >>

\* An invocation starts while others may be running.
Launch(i) ==
    /\ runs < MaxRuns
    /\ runs' = runs + 1
    /\ main(i)

\* A player starts or exits: the backend's list changes under the program.
EnvChange ==
    /\ \E p \in Players :
          LET S == { live[k] : k \in 1..Len(live) }
          IN  live' = Listing(IF p \in S THEN S \ {p} ELSE S \cup {p}, 1)
    /\ UNCHANGED << file, pc, args, current_player, all_player_lines,
                    CHANGE_SIGNAL_HANDLER, pids, child, outcome, runs >>

(* ----------------------- init_if_empty_player -------------------------- *)

\* lines 182-192: read the cache file when it exists.
InitRead(i) ==
    /\ pc[i] = "init_read"
    /\ current_player' = [current_player EXCEPT ![i] = read_if_exists(file)]
    /\ pc' = [pc EXCEPT ![i] = "init_list"]
    /\ UNCHANGED << live, file, args, all_player_lines, CHANGE_SIGNAL_HANDLER,
                    pids, child, outcome, runs >>

\* lines 194-205: `playerctl -l`.
InitList(i) ==
    /\ pc[i] = "init_list"
    /\ all_player_lines' = [all_player_lines EXCEPT ![i] = live]
    /\ pc' = [pc EXCEPT ![i] = "init_create"]
    /\ UNCHANGED << live, file, args, current_player, CHANGE_SIGNAL_HANDLER,
                    pids, child, outcome, runs >>

\* lines 207-210: File::create, whatever was read.
InitCreate(i) ==
    /\ pc[i] = "init_create"
    /\ file' = File_create(file)
    /\ pc' = [pc EXCEPT ![i] = "init_write"]
    /\ UNCHANGED << live, args, current_player, all_player_lines,
                    CHANGE_SIGNAL_HANDLER, pids, child, outcome, runs >>

\* lines 212-234: validate, fall back to the first line, write; or return
\* Err("No players found!"), which main prints before it returns.  The
\* locals keep what was read until the function returns.
InitWrite(i) ==
    /\ pc[i] = "init_write"
    /\ LET v == init_value(current_player[i], all_player_lines[i])
       IN  IF v = None
           THEN /\ Exit(i, "No players found!")
                /\ UNCHANGED file
           ELSE /\ file' = write_all(file, v)
                /\ pc' = [pc EXCEPT ![i] = "register"]
                /\ UNCHANGED << args, current_player, all_player_lines,
                                CHANGE_SIGNAL_HANDLER, pids, outcome >>
    /\ UNCHANGED << live, child, runs >>

\* The first position of each command's function.
entry(a) ==
    CASE a.op = "list"     -> "list"
      [] a.op = "switch"   -> "sw_read"
      [] a.op = "status"   -> "st_read"
      [] a.op = "metadata" -> "md_read"
      [] OTHER             -> "cmd_read"

\* lines 117-152: init_if_empty_player has returned Ok; parse the command
\* line (a), register the flag for SIGUSR1, dispatch on the command.
Register(i, a) ==
    /\ pc[i] = "register"
    /\ args' = [args EXCEPT ![i] = a]
    /\ pc' = [pc EXCEPT ![i] = entry(a)]
    /\ current_player' = [current_player EXCEPT ![i] = <<>>]
    /\ all_player_lines' = [all_player_lines EXCEPT ![i] = <<>>]
    /\ UNCHANGED << live, file, CHANGE_SIGNAL_HANDLER, pids, child, outcome,
                    runs >>

(* ------------------------- one-shot commands --------------------------- *)

\* list_players: `playerctl -l`, printed; the cache file is not read.
ListPlayers(i) ==
    /\ pc[i] = "list"
    /\ Exit(i, "ok")
    /\ UNCHANGED << live, file, child, runs >>

\* get_current_player: open and read the cache file, panic when it cannot.
get_current_player(i, next_pc) ==
    IF file.exists
    THEN /\ current_player' = [current_player EXCEPT ![i] = file.content]
         /\ pc' = [pc EXCEPT ![i] = next_pc]
         /\ UNCHANGED << args, all_player_lines, CHANGE_SIGNAL_HANDLER, pids,
                         outcome >>
    ELSE Exit(i, "panic")

\* toggle, play, pause, next, previous, volume, position, player, and
\* status and metadata without --follow: read the selection ...
CommandRead(i) ==
    /\ pc[i] = "cmd_read"
    /\ get_current_player(i, "cmd_run")
    /\ UNCHANGED << live, file, child, runs >>

\* ... and run the backend against it (player: print it).
CommandRun(i) ==
    /\ pc[i] = "cmd_run"
    /\ Exit(i, "ok")
    /\ UNCHANGED << live, file, child, runs >>

(* ------------------------------ switch --------------------------------- *)

\* lines 303-313: read the cache file when it exists.
SwitchRead(i) ==
    /\ pc[i] = "sw_read"
    /\ current_player' = [current_player EXCEPT ![i] = read_if_exists(file)]
    /\ pc' = [pc EXCEPT ![i] = "sw_list"]
    /\ UNCHANGED << live, file, args, all_player_lines, CHANGE_SIGNAL_HANDLER,
                    pids, child, outcome, runs >>

\* lines 315-328: `playerctl -l`.
SwitchList(i) ==
    /\ pc[i] = "sw_list"
    /\ all_player_lines' = [all_player_lines EXCEPT ![i] = live]
    /\ pc' = [pc EXCEPT ![i] = "sw_create"]
    /\ UNCHANGED << live, file, args, current_player, CHANGE_SIGNAL_HANDLER,
                    pids, child, outcome, runs >>

\* lines 359-362: File::create.
SwitchCreate(i) ==
    /\ pc[i] = "sw_create"
    /\ file' = File_create(file)
    /\ pc' = [pc EXCEPT ![i] = "sw_write"]
    /\ UNCHANGED << live, args, current_player, all_player_lines,
                    CHANGE_SIGNAL_HANDLER, pids, child, outcome, runs >>

\* A switch that returns at once, no save and no signal, when the selection
\* it computed is the one it read.
SwitchWrite_skips_unchanged(i) ==
    /\ pc[i] = "sw_write"
    /\ LET v == switch_value(current_player[i], all_player_lines[i],
                             args[i].player, args[i].back)
       IN  IF v = None
           THEN /\ Exit(i, "panic")
                /\ UNCHANGED file
           ELSE IF v = current_player[i]
           THEN /\ Exit(i, "ok")
                /\ UNCHANGED file
           ELSE /\ file' = write_all(file, v)
                /\ pc' = [pc EXCEPT ![i] = "sw_scan"]
                /\ UNCHANGED << args, current_player, all_player_lines,
                                CHANGE_SIGNAL_HANDLER, pids, outcome >>
    /\ UNCHANGED << live, child, runs >>

\* lines 330-357 and 364-369: the policy (--player, or the line after, or
\* with --back before, the current one; _next is never read), which is
\* local and so takes effect with the write; then the first line when the
\* result is empty (a panic when there is none), then write_all.  The
\* locals keep what was read until the function returns.
SwitchWrite(i) ==
    /\ pc[i] = "sw_write"
    /\ LET v == switch_value(current_player[i], all_player_lines[i],
                             args[i].player, args[i].back)
       IN  IF v = None
           THEN /\ Exit(i, "panic")
                /\ UNCHANGED file
           ELSE /\ file' = write_all(file, v)
                /\ pc' = [pc EXCEPT ![i] = "sw_scan"]
                /\ UNCHANGED << args, current_player, all_player_lines,
                                CHANGE_SIGNAL_HANDLER, pids, outcome >>
    /\ UNCHANGED << live, child, runs >>

\* lines 372-399: collect the pids of the processes named multiplayerctl,
\* this one among them.  What was read and computed is not used again.
SwitchScan(i) ==
    /\ pc[i] = "sw_scan"
    /\ pids' = [pids EXCEPT ![i] = { j \in Inst : Running(j) }]
    /\ pc' = [pc EXCEPT ![i] = "sw_kill"]
    /\ args' = [args EXCEPT ![i] = NoArgs]
    /\ current_player' = [current_player EXCEPT ![i] = <<>>]
    /\ all_player_lines' = [all_player_lines EXCEPT ![i] = <<>>]
    /\ UNCHANGED << live, file, CHANGE_SIGNAL_HANDLER, child, outcome, runs >>

\* A handler that inverts the flag on every SIGUSR1 instead of setting it.
signal_toggles(j) ==
    IF Registered(j)
    THEN /\ CHANGE_SIGNAL_HANDLER' =
                [CHANGE_SIGNAL_HANDLER EXCEPT ![j] = ~CHANGE_SIGNAL_HANDLER[j]]
         /\ UNCHANGED << pc, outcome, args, current_player, all_player_lines >>
    ELSE IF Running(j)
    THEN /\ pc' = [pc EXCEPT ![j] = "done"]
         /\ outcome' = [outcome EXCEPT ![j] = "killed"]
         /\ args' = [args EXCEPT ![j] = NoArgs]
         /\ current_player' = [current_player EXCEPT ![j] = <<>>]
         /\ all_player_lines' = [all_player_lines EXCEPT ![j] = <<>>]
         /\ UNCHANGED CHANGE_SIGNAL_HANDLER
    ELSE UNCHANGED << pc, outcome, args, current_player, all_player_lines,
                      CHANGE_SIGNAL_HANDLER >>

\* SIGUSR1 reaches process j: where the handler is registered the flag is
\* raised; before that the default action ends the process; a process that
\* has exited is not there any more.
signal(j) ==
    IF Registered(j)
    THEN /\ CHANGE_SIGNAL_HANDLER' = [CHANGE_SIGNAL_HANDLER EXCEPT ![j] = TRUE]
         /\ UNCHANGED << pc, outcome, args, current_player, all_player_lines >>
    ELSE IF Running(j)
    THEN /\ pc' = [pc EXCEPT ![j] = "done"]
         /\ outcome' = [outcome EXCEPT ![j] = "killed"]
         /\ args' = [args EXCEPT ![j] = NoArgs]
         /\ current_player' = [current_player EXCEPT ![j] = <<>>]
         /\ all_player_lines' = [all_player_lines EXCEPT ![j] = <<>>]
         /\ UNCHANGED CHANGE_SIGNAL_HANDLER
    ELSE UNCHANGED << pc, outcome, args, current_player, all_player_lines,
                      CHANGE_SIGNAL_HANDLER >>

\* lines 401-405: libc::kill(pid, SIGUSR1) for one collected pid.
SwitchKill(i, j) ==
    /\ pc[i] = "sw_kill"
    /\ j \in pids[i]
    /\ pids' = [pids EXCEPT ![i] = pids[i] \ {j}]
    /\ signal(j)
    /\ UNCHANGED << live, file, child, runs >>

\* line 407, and main's Ok(()) arm: nothing is printed.
SwitchDone(i) ==
    /\ pc[i] = "sw_kill"
    /\ pids[i] = {}
    /\ Exit(i, "ok")
    /\ UNCHANGED << live, file, child, runs >>

(* --------------------------- status --follow --------------------------- *)

\* line 496
StatusRead(i) ==
    /\ pc[i] = "st_read"
    /\ get_current_player(i, "st_spawn")
    /\ UNCHANGED << live, file, child, runs >>

\* lines 516-526: spawn `playerctl --player=<current_player> status`.
StatusSpawn(i) ==
    /\ pc[i] = "st_spawn"
    /\ child' = [child EXCEPT ![i] = Append(child[i], current_player[i])]
    /\ pc' = [pc EXCEPT ![i] = "st_loop"]
    /\ UNCHANGED << live, file, args, current_player, all_player_lines,
                    CHANGE_SIGNAL_HANDLER, pids, outcome, runs >>

\* A status loop that, like the metadata loop, kills its subprocess, clears
\* the flag and starts over when it finds the flag set.
StatusLoop_restarts(i) ==
    /\ pc[i] = "st_loop"
    /\ IF CHANGE_SIGNAL_HANDLER[i]
       THEN /\ child' = [child EXCEPT ![i] = SubSeq(child[i], 1, Len(child[i]) - 1)]
            /\ CHANGE_SIGNAL_HANDLER' = [CHANGE_SIGNAL_HANDLER EXCEPT ![i] = FALSE]
            /\ pc' = [pc EXCEPT ![i] = "st_read"]
            /\ UNCHANGED << outcome, args, current_player, all_player_lines, pids >>
       ELSE /\ \E r \in {"line", "eof", "error"} :
                  IF r = "error"
                  THEN Exit(i, "panic")
                  ELSE UNCHANGED << pc, outcome, args, current_player,
                                    all_player_lines, CHANGE_SIGNAL_HANDLER, pids >>
            /\ UNCHANGED child
    /\ UNCHANGED << live, file, runs >>

\* lines 528-534: read_line blocks; a line, or nothing at the end of the
\* stream, is printed and the loop goes on; an error panics.
StatusLoop(i) ==
    /\ pc[i] = "st_loop"
    /\ \E r \in {"line", "eof", "error"} :
          IF r = "error"
          THEN Exit(i, "panic")
          ELSE UNCHANGED << pc, outcome, args, current_player,
                            all_player_lines, CHANGE_SIGNAL_HANDLER, pids >>
    /\ UNCHANGED << live, file, child, runs >>

(* -------------------------- metadata --follow -------------------------- *)

\* line 539: the selection read before the loop.
MetadataRead(i) ==
    /\ pc[i] = "md_read"
    /\ get_current_player(i, "fl_read")
    /\ UNCHANGED << live, file, child, runs >>

\* A follow loop that starts the next subprocess against the selection it
\* read before the loop.
FollowRead_keeps_selection(i) ==
    /\ pc[i] = "fl_read"
    /\ pc' = [pc EXCEPT ![i] = "fl_spawn"]
    /\ UNCHANGED << live, file, args, current_player, all_player_lines,
                    CHANGE_SIGNAL_HANDLER, pids, child, outcome, runs >>

\* lines 571-577: each round of the outer loop reads the selection again.
FollowRead(i) ==
    /\ pc[i] = "fl_read"
    /\ get_current_player(i, "fl_spawn")
    /\ UNCHANGED << live, file, child, runs >>

\* A follow loop that clears the flag when it spawns, after it has read the
\* selection.
FollowSpawn_clears_flag(i) ==
    /\ pc[i] = "fl_spawn"
    /\ child' = [child EXCEPT ![i] = Append(child[i], current_player[i])]
    /\ pc' = [pc EXCEPT ![i] = "fl_poll"]
    /\ CHANGE_SIGNAL_HANDLER' = [CHANGE_SIGNAL_HANDLER EXCEPT ![i] = FALSE]
    /\ UNCHANGED << live, file, args, current_player, all_player_lines,
                    pids, outcome, runs >>

\* lines 578-599: spawn `playerctl --player=<current_player> metadata
\* --follow` and make its stdout non-blocking.
FollowSpawn(i) ==
    /\ pc[i] = "fl_spawn"
    /\ child' = [child EXCEPT ![i] = Append(child[i], current_player[i])]
    /\ pc' = [pc EXCEPT ![i] = "fl_poll"]
    /\ UNCHANGED << live, file, args, current_player, all_player_lines,
                    CHANGE_SIGNAL_HANDLER, pids, outcome, runs >>

\* A follow loop that leaves the subprocess running when it finds the flag
\* set.
FollowPoll_keeps_child(i) ==
    /\ pc[i] = "fl_poll"
    /\ IF CHANGE_SIGNAL_HANDLER[i]
       THEN pc' = [pc EXCEPT ![i] = "fl_clear"]
       ELSE pc' = [pc EXCEPT ![i] = "fl_io"]
    /\ UNCHANGED << live, file, args, current_player, all_player_lines,
                    CHANGE_SIGNAL_HANDLER, pids, child, outcome, runs >>

\* lines 602-603: load the flag; when it is set, kill the child.
FollowPoll(i) ==
    /\ pc[i] = "fl_poll"
    /\ IF CHANGE_SIGNAL_HANDLER[i]
       THEN /\ child' = [child EXCEPT ![i] = SubSeq(child[i], 1, Len(child[i]) - 1)]
            /\ pc' = [pc EXCEPT ![i] = "fl_clear"]
       ELSE /\ pc' = [pc EXCEPT ![i] = "fl_io"]
            /\ UNCHANGED child
    /\ UNCHANGED << live, file, args, current_player, all_player_lines,
                    CHANGE_SIGNAL_HANDLER, pids, outcome, runs >>

\* lines 604-605: store false, break to the outer loop.
FollowClear(i) ==
    /\ pc[i] = "fl_clear"
    /\ CHANGE_SIGNAL_HANDLER' = [CHANGE_SIGNAL_HANDLER EXCEPT ![i] = FALSE]
    /\ pc' = [pc EXCEPT ![i] = "fl_read"]
    /\ UNCHANGED << live, file, args, current_player, all_player_lines,
                    pids, child, outcome, runs >>

\* lines 608-629: one non-blocking read of up to 1024 bytes.  Bytes that are
\* valid UTF-8, or nothing at the end of the stream, are printed; bytes that
\* are not (a chunk may end inside a character) make from_utf8's expect
\* panic; EAGAIN sleeps 100 ms; another error panics.
FollowIo(i) ==
    /\ pc[i] = "fl_io"
    /\ \E r \in {"bytes", "cut", "eof", "again", "error"} :
          IF r = "error"
          THEN Exit(i, "panic")
          ELSE IF r = "cut"
          THEN Exit(i, "Failed to convert to string.")
          ELSE /\ pc' = [pc EXCEPT ![i] = "fl_poll"]
               /\ UNCHANGED << outcome, args, current_player,
                               all_player_lines, CHANGE_SIGNAL_HANDLER, pids >>
    /\ UNCHANGED << live, file, child, runs >>

(* --------------------------- specifications ---------------------------- *)

Step(i) ==
    \/ InitRead(i) \/ InitList(i) \/ InitCreate(i) \/ InitWrite(i)
    \/ \E a \in Args : Register(i, a)
    \/ ListPlayers(i) \/ CommandRead(i) \/ CommandRun(i)
    \/ SwitchRead(i) \/ SwitchList(i) \/ SwitchCreate(i) \/ SwitchWrite(i)
    \/ SwitchScan(i) \/ (\E j \in Inst : SwitchKill(i, j)) \/ SwitchDone(i)
    \/ StatusRead(i) \/ StatusSpawn(i) \/ StatusLoop(i)
    \/ MetadataRead(i) \/ FollowRead(i) \/ FollowSpawn(i)
    \/ FollowPoll(i) \/ FollowClear(i) \/ FollowIo(i)

\* Invocations overlap freely.
Next ==
    \/ \E i \in Inst : Launch(i)
    \/ EnvChange
    \/ \E i \in Inst : Step(i)

Spec == Init /\ [][Next]_vars

\* No other invocation is between its start and its end, except in a
\* follow loop, which only reads the cache file.
Following(i) == pc[i] \in {"fl_read", "fl_spawn", "fl_poll", "fl_clear", "fl_io",
                           "st_spawn", "st_loop"}

SoloLaunch(i) ==
    /\ \A j \in Inst \ {i} : Running(j) => Following(j)
    /\ main(i)
    /\ UNCHANGED runs

\* One invocation at a time, any number of them one after the other: no
\* two overlap, a follow loop aside.
SoloNext ==
    \/ \E i \in Inst : SoloLaunch(i)
    \/ EnvChange
    \/ \E i \in Inst : Step(i)

SoloSpec == Init /\ [][SoloNext]_vars

\* `multiplayerctl metadata --follow`
MetadataFollow ==
    [op |-> "metadata", player |-> None, next |-> FALSE, back |-> FALSE,
     follow |-> TRUE]

\* The steps of an invocation of `metadata --follow`.
FollowerStep(i) ==
    \/ InitRead(i) \/ InitList(i) \/ InitCreate(i) \/ InitWrite(i)
    \/ Register(i, MetadataFollow)
    \/ MetadataRead(i) \/ FollowRead(i) \/ FollowSpawn(i)
    \/ FollowPoll(i) \/ FollowClear(i) \/ FollowIo(i)

\* The steps of an invocation of `switch`.
SwitcherStep(i) ==
    \/ InitRead(i) \/ InitList(i) \/ InitCreate(i) \/ InitWrite(i)
    \/ \E a \in SwitchArgs : Register(i, a)
    \/ SwitchRead(i) \/ SwitchList(i) \/ SwitchCreate(i) \/ SwitchWrite(i)
    \/ SwitchScan(i) \/ (\E j \in Inst : SwitchKill(i, j)) \/ SwitchDone(i)

\* `metadata --follow` in slot p1 while `switch` is run, again and again,
\* in slot p2.
FollowNext ==
    \/ \E i \in Inst : Launch(i)
    \/ FollowerStep("p1")
    \/ SwitcherStep("p2")

\* The operating system schedules every process that can run: neither the
\* follow loop nor a switch stops between two of its steps.
FollowSpec ==
    /\ Init
    /\ [][FollowNext]_vars
    /\ WF_vars(FollowerStep("p1"))
    /\ WF_vars(SwitcherStep("p2"))

\* `switch` run in both slots, again and again: two saves may overlap.
RaceNext ==
    \/ \E i \in Inst : Launch(i)
    \/ SwitcherStep("p1")
    \/ SwitcherStep("p2")

RaceSpec == Init /\ [][RaceNext]_vars

(* ------------------------------ claims --------------------------------- *)

\* The persisted selection: the content of the cache file, empty when the
\* file is absent.
Persisted == read_if_exists(file)

\* Process i takes a step that moves it on.
Moves(i) == pc'[i] # pc[i]

\* The resolver of process i found its selection among the players listed.
ResolverFoundValid(i) ==
    /\ pc[i] \in {"init_create", "init_write"}
    /\ player_valid(current_player[i], all_player_lines[i])

\* C1 (as claimed): when the persisted selection s is one of the players
\* listed, the resolver resolves to s and performs no write of any kind on
\* the cache file: no truncation, no overwrite.
C1_ValidSelectionNotWritten ==
    [][\A i \in Inst :
          (ResolverFoundValid(i) /\ Moves(i)) =>
              /\ file' = file
              /\ Persisted' = current_player[i]]_vars

\* The resolver of process i has returned Ok after it found the selection
\* it read absent, empty or not among the (some) players listed.
ResolverRepaired(i) ==
    /\ pc[i] = "register"
    /\ all_player_lines[i] # <<>>
    /\ ~player_valid(current_player[i], all_player_lines[i])

\* C2: what the resolver decides on is the persisted selection; when that
\* is absent, empty or not one of the players listed (and some are), then
\* once the resolver has completed the cache file exists and holds exactly
\* the first line of the list: a write-back has occurred.
C2_RepairSelectsFirst ==
    \A i \in Inst :
        /\ pc[i] \in {"init_list", "init_create"} =>
               current_player[i] = Persisted
        /\ ResolverRepaired(i) =>
               file = [exists |-> TRUE, content |-> all_player_lines[i][1]]

\* C2's case: a stale selection (a player that has exited) repaired while
\* two players are listed.
C2_Witness ==
    \E i \in Inst :
        /\ ResolverRepaired(i)
        /\ current_player[i] \in Players
        /\ Len(all_player_lines[i]) = 2
        /\ Persisted = all_player_lines[i][1]

\* C5: when the list is empty at startup the resolver fails with "No
\* players found!" whatever the selection it read, and the invocation ends
\* there: no command line is parsed, no flag raised, no process signalled,
\* no subprocess spawned; nothing runs after the message.
C5_NoPlayersEndsInvocation ==
    [][\A i \in Inst :
          /\ (pc[i] = "init_write" /\ all_player_lines[i] = <<>> /\ Moves(i)) =>
                 /\ pc'[i] = "done"
                 /\ outcome'[i] = "No players found!"
                 /\ args'[i] = NoArgs
                 /\ CHANGE_SIGNAL_HANDLER' = CHANGE_SIGNAL_HANDLER
                 /\ pids' = pids
                 /\ child' = child
          /\ outcome'[i] = "No players found!" =>
                 /\ pc'[i] = "done"
                 /\ pc[i] \in {"init_write", "done"}]_vars

\* C5's case: an invocation has ended with the message.
C5_Witness ==
    \E i \in Inst : pc[i] = "done" /\ outcome[i] = "No players found!"

\* switch of process i has written the cache file and not yet looked for
\* the processes to signal; its locals hold what it read.
SwitchSaved(i) == pc[i] = "sw_scan"

\* switch reads the persisted selection before it lists the players.
SwitchReadsPersisted(i) ==
    pc[i] \in {"sw_list", "sw_create"} => current_player[i] = Persisted

\* The policy of a command line: --player names one; otherwise --back
\* alone is Previous; --next, or neither flag, is Next.
IsNamed(a) == a.player # None
IsPrevious(a) == a.player = None /\ a.back /\ ~a.next
IsNext(a) == a.player = None /\ ~a.back

\* C3: switch with policy Next persists the line after the persisted
\* selection, with policy Previous the line before it, going round at both
\* ends of the list.
C3_SwitchRotates ==
    \A i \in Inst :
        /\ SwitchReadsPersisted(i)
        /\ (SwitchSaved(i) /\ player_valid(current_player[i], all_player_lines[i])) =>
              LET P == all_player_lines[i]
                  n == Len(P)
                  k == CHOOSE m \in 1..n : P[m] = current_player[i]
              IN  /\ IsNext(args[i]) =>
                        file = [exists |-> TRUE, content |-> P[(k % n) + 1]]
                  /\ IsPrevious(args[i]) =>
                        file = [exists |-> TRUE,
                                content |-> P[((k - 2 + n) % n) + 1]]

\* C3's case: three players, the last one selected, Next (by default)
\* has gone round to the first.
C3_Witness ==
    \E i \in Inst :
        /\ SwitchSaved(i)
        /\ IsNext(args[i]) /\ ~args[i].next
        /\ Len(all_player_lines[i]) = 3
        /\ current_player[i] = all_player_lines[i][3]
        /\ Persisted = all_player_lines[i][1]

\* C4: switch with --player x, x one of the players listed, persists x,
\* whatever the selection was before.
C4_SwitchByName ==
    \A i \in Inst :
        (/\ SwitchSaved(i)
         /\ IsNamed(args[i])
         /\ player_valid(args[i].player, all_player_lines[i])) =>
            file = [exists |-> TRUE, content |-> args[i].player]

\* C4's case: the selection before was a player that is no longer listed.
C4_Witness ==
    \E i \in Inst :
        /\ SwitchSaved(i)
        /\ IsNamed(args[i])
        /\ player_valid(args[i].player, all_player_lines[i])
        /\ current_player[i] \in Players
        /\ ~player_valid(current_player[i], all_player_lines[i])
        /\ Persisted = args[i].player

\* What switch does once it has saved, as steps: it collects every running
\* process, sends each one the signal (which raises the flag of a process
\* that has registered it), and returns Ok only when none is left.
Broadcasts(i) ==
    /\ (pc[i] = "sw_scan" /\ Moves(i)) =>
           /\ pc'[i] = "sw_kill"
           /\ pids'[i] = { j \in Inst : Running(j) }
           /\ file' = file
    /\ \A j \in Inst :
           (pc[i] = "sw_kill" /\ j \in pids[i] /\ j \notin pids'[i]
                /\ Registered(j) /\ pc'[i] = "sw_kill") =>
               CHANGE_SIGNAL_HANDLER'[j]
    /\ (pc[i] = "sw_kill" /\ pc'[i] = "done") =>
           /\ pids[i] = {}
           /\ outcome'[i] = "ok"

\* C7: a switch first persists the selection it has computed and only then
\* broadcasts; it completes only by way of the broadcast; both happen also
\* when the selection computed is the one that was persisted before.
C7_SaveThenBroadcast ==
    [][\A i \in Inst :
          /\ SwitchSaved(i)' =>
                 file' = [exists |-> TRUE,
                          content |-> switch_value(current_player'[i],
                                                   all_player_lines'[i],
                                                   args'[i].player,
                                                   args'[i].back)]
          /\ pids'[i] # {} => (pc'[i] = "sw_kill" /\ pc[i] \in {"sw_scan", "sw_kill"})
          /\ (args[i].op = "switch" /\ pc'[i] = "done" /\ outcome'[i] = "ok") =>
                 pc[i] = "sw_kill"
          /\ Broadcasts(i)]_vars

\* C7's case: a switch that changed nothing (the selection persisted is the
\* one that was there before) has signalled a process in a follow loop, and
\* itself.
C7_Witness ==
    \E i \in Inst, j \in Inst :
        /\ i # j
        /\ pc[i] = "sw_kill"
        /\ pids[i] = {}
        /\ CHANGE_SIGNAL_HANDLER[i]
        /\ Following(j)
        /\ CHANGE_SIGNAL_HANDLER[j]
        /\ Len(child[j]) = 1
        /\ child[j][1] = Persisted

\* C8 (as claimed): a switch that finds the list of players empty ends with
\* an error message: it does not touch the cache file, does not go on to
\* save and broadcast, does not end Ok and does not panic.
C8_SwitchFailsOnEmptyList ==
    [][\A i \in Inst :
          (pc[i] \in {"sw_create", "sw_write"} /\ all_player_lines[i] = <<>>
                /\ Moves(i)) =>
              /\ file' = file
              /\ pc'[i] = "done"
              /\ outcome'[i] = "Failed to switch player: No players found!"]_vars

\* C9 (as claimed): Next or Previous with a persisted selection that is
\* absent or not one of the players listed (and some are) persists the
\* first line of the list.
C9_RotateFallsBackToFirst ==
    \A i \in Inst :
        (/\ SwitchSaved(i)
         /\ ~IsNamed(args[i])
         /\ all_player_lines[i] # <<>>
         /\ ~player_valid(current_player[i], all_player_lines[i])) =>
            file = [exists |-> TRUE, content |-> all_player_lines[i][1]]

\* switch of process i was given --player x with x not among the players
\* listed, and read a selection that is not empty.
NamedNotListed(i) ==
    /\ SwitchSaved(i)
    /\ IsNamed(args[i])
    /\ ~player_valid(args[i].player, all_player_lines[i])
    /\ current_player[i] # <<>>

\* C10: switch with --player x, x not among the players listed, and a
\* persisted selection that is not empty: the selection persisted after the
\* switch is the one persisted before it, and the broadcast still happens.
C10_NamedMissKeepsSelection ==
    [][\A i \in Inst :
          /\ SwitchReadsPersisted(i)'
          /\ NamedNotListed(i)' =>
                 file' = [exists |-> TRUE, content |-> current_player'[i]]
          /\ (NamedNotListed(i) /\ Moves(i)) => pc'[i] = "sw_kill"
          /\ Broadcasts(i)]_vars

\* C10's case: such a switch has saved while other players are listed and
\* the selection it read is one of them.
C10_Witness ==
    \E i \in Inst :
        /\ NamedNotListed(i)
        /\ player_valid(current_player[i], all_player_lines[i])
        /\ Len(all_player_lines[i]) = 2
        /\ Persisted = current_player[i]

\* How the follow loop ends when a read from its subprocess goes wrong.
FollowPanics == {"panic", "Failed to convert to string."}

\* Process i is in the poll loop of `metadata --follow` with its one
\* subprocess running against player a.
Streaming(i, a) == pc[i] \in {"fl_poll", "fl_io"} /\ child[i] = << a >>

\* Process j may yet write the cache file: it is in the resolver or in
\* switch before the write.
MayWrite(j) ==
    pc[j] \in {"init_read", "init_list", "init_create", "init_write",
               "register", "sw_read", "sw_list", "sw_create", "sw_write"}

HasLoaded(i) == pc[i] \in {"cmd_run", "st_spawn", "st_loop", "fl_read", "fl_spawn"}

\* C11 (as claimed): whatever get_current_player returns to a reader, in a
\* one-shot command or at a restart of the follow loop, is a complete
\* player identifier that some save wrote: never the empty string and never
\* a part of a value, also while another instance is saving.
C11_ReaderSeesCompleteValue ==
    \A i \in Inst : HasLoaded(i) => current_player[i] \in Players

\* Every switch started has returned Ok.
AllSwitchesFinished ==
    /\ \A i \in Inst : pc[i] \in {"idle", "done"}
    /\ \E i \in Inst : pc[i] = "done"
    /\ \A i \in Inst : pc[i] = "done" => outcome[i] = "ok"

\* C12 (as claimed): once all of the switch invocations that ran, one after
\* the other or at the same time, have finished, the cache file holds
\* exactly one player identifier, the one saved last: it is not empty and
\* not a mixture of the bytes of two saves.
C12_LastWriteWins ==
    AllSwitchesFinished => (file.exists /\ file.content \in Players)

\* C13 (as claimed): the invocation that ends with "No players found!"
\* leaves the cache file exactly as it found it: what it read at its start
\* is what is persisted when it ends, so that a selection that is not empty
\* is not replaced by an empty one.
C13_FailedStartKeepsSelection ==
    [][\A i \in Inst :
          (pc[i] = "init_write" /\ outcome'[i] = "No players found!") =>
              Persisted' = current_player[i]]_vars

\* Positions of a command between the resolver's save and the command's
\* own load.
BeforeLoad == {"register", "cmd_read", "st_read", "md_read"}

\* C14: with no other writer, a save followed by a load gives back exactly
\* what was saved, whatever the file held before.  When the resolver has
\* saved x (and when switch has), the file holds x and nothing else; the
\* file stays as it is until the command loads; and the load returns the
\* whole content of the file, so a one-shot command runs against x.
C14_SaveThenLoad ==
    /\ [](\A i \in Inst :
            /\ pc[i] = "register" =>
                   file = [exists |-> TRUE,
                           content |-> init_value(current_player[i],
                                                  all_player_lines[i])]
            /\ pc[i] = "sw_scan" =>
                   file = [exists |-> TRUE,
                           content |-> switch_value(current_player[i],
                                                    all_player_lines[i],
                                                    args[i].player, args[i].back)]
            /\ pc[i] = "cmd_run" =>
                   (current_player[i] = Persisted /\ Persisted # <<>>))
    /\ [][\A i \in Inst :
            /\ pc[i] \in BeforeLoad => file' = file
            /\ (pc[i] \in BeforeLoad \ {"register"} /\ Moves(i)) =>
                   (file.exists /\ current_player'[i] = file.content)]_vars

\* C14's case: the file held the longer "bb", the resolver has saved the
\* shorter "a" over it, and the command is about to load.
C14_Witness ==
    \E i \in Inst :
        /\ pc[i] = "register"
        /\ current_player[i] = <<"b", "b">>
        /\ Persisted = <<"a">>

\* This step delivers SIGUSR1 to process j: a switch takes j off the list
\* of pids it has still to signal.
Notified(j) ==
    \E i \in Inst :
        /\ pc[i] = "sw_kill" /\ pc'[i] = "sw_kill"
        /\ j \in pids[i] /\ j \notin pids'[i]

\* C15: the flag of an instance is false until a notification arrives and
\* true after every notification it receives; a notification received
\* while the flag is already set changes nothing in the instance, so any
\* number of them before a poll are one pending indication; the poll that
\* finds the flag set kills the one subprocess, the flag is false after the
\* clear that follows, and one subprocess is spawned.
C15_NotificationsCoalesce ==
    /\ [](\A j \in Inst :
            /\ ~Registered(j) => ~CHANGE_SIGNAL_HANDLER[j]
            /\ pc[j] = "register" => ~CHANGE_SIGNAL_HANDLER[j]
            /\ Len(child[j]) <= 1)
    /\ [][\A j \in Inst :
            /\ (~CHANGE_SIGNAL_HANDLER[j] /\ CHANGE_SIGNAL_HANDLER'[j]) => Notified(j)
            /\ (Notified(j) /\ Registered(j)) =>
                   /\ CHANGE_SIGNAL_HANDLER'[j]
                   /\ CHANGE_SIGNAL_HANDLER[j] =>
                          /\ pc'[j] = pc[j]
                          /\ child'[j] = child[j]
                          /\ current_player'[j] = current_player[j]
            /\ (pc[j] = "fl_poll" /\ CHANGE_SIGNAL_HANDLER[j] /\ Moves(j)) =>
                   /\ pc'[j] = "fl_clear"
                   /\ Len(child[j]) = 1 /\ child'[j] = <<>>
            /\ (pc[j] = "fl_clear" /\ Moves(j)) =>
                   /\ pc'[j] = "fl_read"
                   /\ ~CHANGE_SIGNAL_HANDLER'[j]
            /\ (pc[j] = "fl_spawn" /\ Moves(j)) =>
                   /\ pc'[j] = "fl_poll"
                   /\ Len(child[j]) = 0 /\ Len(child'[j]) = 1]_vars

\* C15's case: the follow loop has not polled since a notification set its
\* flag, and a switch is about to send it another one.
C15_Witness ==
    /\ pc["p1"] = "fl_io"
    /\ CHANGE_SIGNAL_HANDLER["p1"]
    /\ pc["p2"] = "sw_kill"
    /\ "p1" \in pids["p2"]

\* C16 (as claimed): a switch has saved b and only has the notification
\* left to send; the other invocation, which is not a switch, has been
\* through its resolver and found the selection it read among the players
\* listed.  Then the file holds b: that resolver has not put the older
\* value it read over it.
C16_ResolverKeepsSwitchedSelection ==
    \A i \in Inst, j \in Inst :
        (/\ i # j
         /\ SwitchSaved(i)
         /\ pc[j] = "register"
         /\ player_valid(current_player[j], all_player_lines[j])) =>
            file = [exists |-> TRUE,
                    content |-> switch_value(current_player[i],
                                             all_player_lines[i],
                                             args[i].player, args[i].back)]

\* C17 (as claimed): SIGUSR1 sent by a switch to an instance that is
\* running, wherever it is in its life, sets that instance's flag and does
\* nothing else to it: the instance stays where it is and is not ended.
C17_NotificationOnlyRaisesFlag ==
    [][\A j \in Inst :
          (Notified(j) /\ Running(j)) =>
              /\ pc'[j] = pc[j]
              /\ outcome'[j] = outcome[j]
              /\ CHANGE_SIGNAL_HANDLER'[j]]_vars

\* C18: a notification the follow loop has received is pending as long as
\* the flag is set.  From every position of the loop where the flag is set,
\* the check-to-clear gap and the respawn included, the loop comes to read
\* the cache file, unless it ends on a read from its subprocess; the
\* read returns what is persisted then, and the next subprocess runs
\* against it; and nothing clears the flag but the step that is followed by
\* that read (the process ending on such a read aside).
C18_NoNotificationLost ==
    /\ (/\ CHANGE_SIGNAL_HANDLER["p1"]
        /\ pc["p1"] \in {"md_read", "fl_spawn", "fl_poll", "fl_io", "fl_clear"})
           ~> (pc["p1"] = "fl_read" \/ outcome["p1"] \in FollowPanics)
    /\ (pc["p1"] = "fl_read") ~> (pc["p1"] = "fl_poll")
    /\ [][/\ (CHANGE_SIGNAL_HANDLER["p1"] /\ ~CHANGE_SIGNAL_HANDLER'["p1"]) =>
                 \/ (pc["p1"] = "fl_clear" /\ pc'["p1"] = "fl_read")
                 \/ (pc["p1"] = "fl_io" /\ outcome'["p1"] \in FollowPanics)
          /\ (pc["p1"] = "fl_read" /\ Moves("p1")) =>
                 (/\ file.exists
                  /\ pc'["p1"] = "fl_spawn"
                  /\ current_player'["p1"] = file.content)
          /\ (pc["p1"] = "fl_spawn" /\ Moves("p1")) =>
                 (/\ pc'["p1"] = "fl_poll"
                  /\ child'["p1"] = Append(child["p1"], current_player["p1"]))]_vars

\* C18's case: the loop has read the cache file and, before it has spawned,
\* a save and its notification have arrived: the flag is set and what the
\* loop read is out of date.
C18_Witness ==
    /\ pc["p1"] = "fl_spawn"
    /\ CHANGE_SIGNAL_HANDLER["p1"]
    /\ current_player["p1"] \in Players
    /\ Persisted \in Players
    /\ current_player["p1"] # Persisted

\* The poll loop of `metadata --follow`: the flag is checked, or the
\* subprocess's output is read.
InPollLoop(j) == pc[j] \in {"fl_poll", "fl_io"}

\* C19 (as claimed): the follow loop leaves its poll loop in two ways only:
\* the check finds the flag set (and the restart begins), or the read from the
\* subprocess fails with an error that is not would-block (and the process
\* ends in a panic).  Every other outcome of the read, bytes, none
\* available, end of stream, goes back to the check with the same
\* subprocess; a check that finds the flag clear goes on to the read.
C19_StreamingLeftTwoWays ==
    [][\A j \in Inst :
          /\ (InPollLoop(j) /\ ~InPollLoop(j)') =>
                 \/ (/\ pc[j] = "fl_poll" /\ CHANGE_SIGNAL_HANDLER[j]
                     /\ pc'[j] = "fl_clear")
                 \/ (/\ pc[j] = "fl_io"
                     /\ pc'[j] = "done" /\ outcome'[j] = "panic")
          /\ (InPollLoop(j) /\ InPollLoop(j)') =>
                 (child'[j] = child[j] /\ current_player'[j] = current_player[j])
          /\ (pc[j] = "fl_poll" /\ ~CHANGE_SIGNAL_HANDLER[j] /\ Moves(j)) =>
                 pc'[j] = "fl_io"]_vars

\* C20: `metadata --follow` has at most one subprocess that it has not
\* killed; in the poll loop it has exactly one, started against the
\* selection read at the top of that round; from the kill to the next spawn
\* (flag clear and re-read in between) it has none, and the output of a
\* subprocess is read only in the poll loop.
C20_OneSubprocess ==
    \A j \in Inst :
        /\ Len(child[j]) <= 1
        /\ InPollLoop(j) => child[j] = << current_player[j] >>
        /\ pc[j] \in {"fl_clear", "fl_read", "fl_spawn"} => child[j] = <<>>

\* C20's case: the subprocess has been killed on a notification and the
\* flag is not cleared yet.
C20_Witness ==
    /\ pc["p1"] = "fl_clear"
    /\ child["p1"] = <<>>
    /\ CHANGE_SIGNAL_HANDLER["p1"]
    /\ current_player["p1"] \in Players

\* C21: once `status --follow` has spawned its subprocess against the
\* selection it read at its start, it has that one subprocess and no other
\* for as long as it runs: whatever notification arrives and whatever is
\* saved to the cache file, it does not kill the subprocess, does not read
\* the file again and does not spawn; it stays in its read loop until a
\* read fails, and its flag, once set, stays set.
C21_StatusFollowNeverRestarts ==
    /\ [](\A j \in Inst :
            pc[j] = "st_loop" => child[j] = << current_player[j] >>)
    /\ [][\A j \in Inst :
            pc[j] = "st_loop" =>
                /\ child'[j] = child[j]
                /\ \/ /\ pc'[j] = "st_loop"
                      /\ current_player'[j] = current_player[j]
                      /\ CHANGE_SIGNAL_HANDLER[j] => CHANGE_SIGNAL_HANDLER'[j]
                   \/ /\ pc'[j] = "done"
                      /\ outcome'[j] = "panic"]_vars

\* C21's case: a notification has reached the status loop and another
\* player is persisted than the one its subprocess was started against.
C21_Witness ==
    \E j \in Inst :
        /\ pc[j] = "st_loop"
        /\ CHANGE_SIGNAL_HANDLER[j]
        /\ Persisted \in Players
        /\ child[j] # << Persisted >>

====
